---- MODULE Spec2Model ----
(***************************************************************************)
(* Control core of the PISCITEC aquarium monitor (Raspberry Pi Pico).      *)
(*                                                                         *)
(* One application thread (the while(1) loop of main) is preempted by      *)
(* interrupt and timer callbacks.  A callback runs to completion, so each  *)
(* callback is one atomic action; the loop is cut into steps at every read *)
(* or write of a variable that a callback also touches, and `pc' is the    *)
(* loop's position.  The repository holds two variants of the loop,        *)
(* src/main.c (variant 1) and src/source/main.c (variant 2).               *)
(*                                                                         *)
(* Numbers.  The C floats are modelled as exact rationals: a filtered      *)
(* value is the record [num, den] of the sum and the divisor of its        *)
(* division; a distance sample is kept in units of 1/58 cm (the echo       *)
(* duration in microseconds), a temperature sample in units of 1/4095 C.   *)
(* A uint32_t is the record [hi, lo] of its two 16-bit halves, with        *)
(* arithmetic modulo 2^32.                                                 *)
(*                                                                         *)
(* Memory.  flag_echo, flag_trigger, flag_vibration, rise_echo and         *)
(* fall_echo are not volatile; every access of them is taken to read or    *)
(* write memory, as it does for the volatile flags.                        *)
(*                                                                         *)
(* Specifications.  Spec composes the loop with every interrupt source     *)
(* under a small budget of events.  RangingSpec, FeederSpec and            *)
(* EchoFairSpec compose the loop with the sources of one subsystem (the    *)
(* sections of a loop pass touch disjoint variables) under a larger        *)
(* budget; FilterSpec exercises the three smoothing filters alone.         *)
(***************************************************************************)
EXTENDS Integers, Sequences, FiniteSets

\* ---- program constants ----
\* ServoTop is the wrap servo_pwm_init computes (food.c:103) and LightTop the wrap
\* pwm_init_basic computes (lights.c:76), both at the 125 MHz system clock.
LOW_FOOD_PIN    == 16
ECHO_PIN        == 3
VIBRATION_PIN   == 4
LED_TIMEOUT_MS  == 3000
WINDOW_SIZE     == 5
TEMP_WINDOW_SIZE == 10
LIGHT_WINDOW_SIZE == 10
FOOD_OPEN       == 0
FOOD_CLOSE      == 1
BUZZER_MS       == 500
ServoTop        == 39062
LightTop        == 12500
AdcMax          == 4095
HalfWord        == 65536
UsPerCm         == 58
MaxDistanceCm   == 400

\* GPIO_IRQ_EDGE_RISE / GPIO_IRQ_EDGE_FALL bits of the events mask.
EDGE_RISE == "rise"
EDGE_FALL == "fall"

\* ---- bounds of the model ----
\* Interrupt/timer events (and clock advances) one behaviour may hold.
MaxEvents        == 3
MaxRangingEvents == 7
MaxFeederEvents  == 6
\* Pushes into a filter beyond its capacity (the k of "N + k pushes").
MaxExtraPushes   == 2
\* Ticks and ADC changes of a behaviour of the dimmer and of the heater.
MaxDimmerEvents  == 3
MaxHeaterEvents  == 5
\* Ticks, vibration pulses and food edges of a behaviour of the status output.
MaxStatusEvents  == 4
\* Pushes of a behaviour that interleaves the three filters.
MaxMixedPushes   == 5
\* Timer expiries, echo edges and vibration pulses of a behaviour that runs the two
\* variants side by side.
MaxTwinEvents    == 6
\* Calls of food_control in a behaviour that commands the servo directly.
MaxCommands      == 3

VARIABLES
    variant, pc, io,
    \* event flags (main.c:35-45)
    flag_alarm, flag_low_food, flag_periodic, flag_echo, flag_trigger,
    flag_vibration, rise_echo, fall_echo,
    \* ranging (main.c:30,42-47)
    echo_start, echo_end, trigger_ready, duracion, window, wpos, wcount, distance,
    \* periodic measurements and their filters
    Temp, lights_value, ir_value, vibration_value, vibration_count,
    heater_on, tbuffer, tindice, tcontador, lbuffer, lindice, lcontador,
    \* output pins and display
    servo_level, led_pin, heater_pin, light_duty, buzzer_pin, display,
    \* one-shot alarms armed and not yet fired
    alarms,
    \* environment
    now, echo_line, low_food_level, adc_temp, adc_light,
    \* history
    rise_at, fall_at, since_pulse, n_open, n_close, n_irq1, n_irq2, n_rise,
    pushed, ret, events, budget, sel,
    \* microseconds that have passed since echo_start was last taken
    elapsed,
    \* the display driver after ssd1306_init, the console
    oled, report, diag,
    \* history of the loop's sections and of the event sources
    work, unseen, n_tick, n_report, n_render

flagVars  == <<flag_alarm, flag_low_food, flag_periodic, flag_echo, flag_trigger,
               flag_vibration, rise_echo, fall_echo>>
rangeVars == <<echo_start, echo_end, trigger_ready, duracion, window, wpos, wcount,
               distance, elapsed>>
senseVars == <<Temp, lights_value, ir_value, vibration_value, vibration_count,
               heater_on, tbuffer, tindice, tcontador, lbuffer, lindice, lcontador>>
pinVars   == <<servo_level, led_pin, heater_pin, light_duty, buzzer_pin, display>>
envVars   == <<now, echo_line, low_food_level, adc_temp, adc_light>>
histVars  == <<rise_at, fall_at, since_pulse, n_open, n_close, n_irq1, n_irq2,
               n_rise, pushed>>
statusVars == <<report, diag, n_tick, n_report, n_render>>
vars == <<variant, pc, io, flagVars, rangeVars, senseVars, pinVars, alarms,
          envVars, histVars, ret, events, budget, sel, oled, statusVars, work,
          unseen>>

\* Frames of the loop: the loop never touches these.
loopFrame == <<variant, events, budget, sel, ret, now, low_food_level, adc_temp, adc_light,
               rise_at, fall_at, n_irq1, n_irq2, n_rise, oled>>
feedHist  == <<n_open, n_close>>

\* ---- uint32_t arithmetic on [hi, lo] halves (time_us_32, echo_start, echo_end) ----
U32(h, l) == [hi |-> h, lo |-> l]

\* a + n modulo 2^32, for 0 <= n < 2^16.
Add32(a, n) ==
    LET s == a.lo + n
    IN  U32((a.hi + (s \div HalfWord)) % HalfWord, s % HalfWord)

\* a - b modulo 2^32 (unsigned wrap-around subtraction).
Sub32Saturating(a, b) ==
    LET l      == a.lo - b.lo
        borrow == IF l < 0 THEN 1 ELSE 0
    IN  IF a.hi - b.hi - borrow < 0 THEN U32(0, 0)
        ELSE U32(a.hi - b.hi - borrow, (l + HalfWord) % HalfWord)

Sub32(a, b) ==
    LET l      == a.lo - b.lo
        borrow == IF l < 0 THEN 1 ELSE 0
    IN  U32((a.hi - b.hi - borrow + HalfWord) % HalfWord, (l + HalfWord) % HalfWord)

\* ---- smoothing filters ----
\* A rational: the operands of the filter's final division.
Rat(n, d) == [num |-> n, den |-> d]

\* index = (index + 1) % N
NextCursorSkip(pos, N) == (pos + 2) % N
NextCursor(pos, N) == (pos + 1) % N

\* if (count < N) count++
NextCountStuck(count, N) == count
NextCount(count, N) == IF count < N THEN count + 1 ELSE count

\* for (i = 0; i < count; i++) sum += buffer[i]
RECURSIVE WindowSum(_, _)
WindowSum(buf, count) ==
    IF count = 0 THEN 0 ELSE buf[count - 1] + WindowSum(buf, count - 1)

\* One push: store at the cursor, advance it, saturate the count, sum, divide.
FilterPushAdvancesFirst(buf, pos, count, N, v) ==
    LET b == [buf EXCEPT ![NextCursor(pos, N)] = v]
        c == NextCount(count, N)
    IN  [buffer |-> b, pos |-> NextCursor(pos, N), count |-> c,
         avg |-> Rat(WindowSum(b, c), c)]

FilterPush(buf, pos, count, N, v) ==
    LET b == [buf EXCEPT ![pos] = v]
        c == NextCount(count, N)
    IN  [buffer |-> b, pos |-> NextCursor(pos, N), count |-> c,
         avg |-> Rat(WindowSum(b, c), c)]

EmptyWindow(N) == [i \in 0 .. N - 1 |-> 0]

moving_average(new_value) == FilterPush(window, wpos, wcount, WINDOW_SIZE, new_value)
media_movil(nuevo_valor)  == FilterPush(tbuffer, tindice, tcontador, TEMP_WINDOW_SIZE, nuevo_valor)
media_movil2Shared(nuevo_valor) == FilterPush(tbuffer, tindice, tcontador, TEMP_WINDOW_SIZE, nuevo_valor)
media_movil2(nuevo_valor) == FilterPush(lbuffer, lindice, lcontador, LIGHT_WINDOW_SIZE, nuevo_valor)

\* ---- feeder servo (food.c) ----
\* angle_to_duty: pulse_width_us = 1000 + (angle - fix) * 1000 / 93, as the
\* numerator of pulse_width_us over 1000/93: (93 + angle - fix) * 1000 / 93.
PulseWidthNum(angle, fix) == 93 + angle - fix

FoodAngleNoMargin(food_case) == 140
FoodAngleDefaultOpen(food_case) == IF food_case = FOOD_CLOSE THEN 140 ELSE 140 - 20
FoodAngle(food_case) == IF food_case = FOOD_OPEN THEN 140 - 20 ELSE 140

\* food_control: pwm level = top * duty_cycle, duty_cycle = pulse_width_us / 20000,
\* truncated to the integer level register.
food_control(food_case) ==
    (ServoTop * PulseWidthNum(FoodAngle(food_case), 35)) \div (93 * 20)

\* ---- temperature (temperature.c) ----
\* read_temperature: raw * 3.3 / 4095 * 100 degrees, in units of 1/4095 C.
read_temperature == adc_temp * 330

\* temp > HOT_TEMPERATURE (26.0) and temp < COLD_TEMPERATURE (25.0) on a rational.
IsHot(t)  == t.num > 26 * AdcMax * t.den
IsCold(t) == t.num < 25 * AdcMax * t.den

\* The heater decision of temperature_control.
HeaterSingleThreshold(t, on) == IF IsHot(t) THEN FALSE ELSE TRUE
HeaterLatchesOn(t, on) == IF IsCold(t) THEN TRUE ELSE on
HeaterNext(t, on) ==
    IF IsHot(t) THEN FALSE
    ELSE IF IsCold(t) THEN TRUE
    ELSE on

\* ---- light dimmer (lights.c) ----
\* uint16_t level = media_movil2(...): the float average truncated.
LightLevel(avg) == avg.num \div avg.den

LightDutyInclusive(level, top) ==
    IF level <= 500 THEN top
    ELSE IF level <= 600 THEN (top * 8) \div 10
    ELSE IF level <= 800 THEN (top * 5) \div 10
    ELSE IF level <= 1100 THEN (top * 3) \div 10
    ELSE IF level <= 1600 THEN top \div 10
    ELSE 0

LightDuty(level, top) ==
    IF level < 500 THEN top
    ELSE IF level < 600 THEN (top * 8) \div 10
    ELSE IF level < 800 THEN (top * 5) \div 10
    ELSE IF level < 1100 THEN (top * 3) \div 10
    ELSE IF level < 1600 THEN top \div 10
    ELSE 0

\* ---- ranging ----
\* distancia = duracion / 58.0f; distancia > 0 && distancia < 400.
AcceptedInclusive(d) == d.hi = 0 /\ d.lo > 0 /\ d.lo <= MaxDistanceCm * UsPerCm
Accepted(d) == d.hi = 0 /\ d.lo > 0 /\ d.lo < MaxDistanceCm * UsPerCm

\* ---- the decisions in which the two variants of the loop differ ----
\* The condition under which the loop takes a trigger request: if (flag_trigger) in
\* variant 1, if (flag_trigger && trigger_ready) in variant 2.
Requested(v, flag, ready) == IF v = 1 THEN flag ELSE flag /\ ready

\* if (trigger_ready) inside the branch, which only variant 1 has.
Fires(v, ready) == IF v = 1 THEN ready ELSE TRUE

\* vibration_value on a tick, the same expression in both variants.
VibValue(count) == IF count > 0 /\ count <= 1 THEN 1 ELSE 0

\* vibration_count after a tick: variant 1 increments it together with the report of 1,
\* variant 2 whenever it is positive.
VibCountWraps(v, count) ==
    IF v = 1
    THEN (IF VibValue(count) = 1 THEN count + 1 ELSE count)
    ELSE (IF count > 0 THEN (count % 2) + 1 ELSE count)

VibCount(v, count) ==
    IF v = 1
    THEN (IF VibValue(count) = 1 THEN count + 1 ELSE count)
    ELSE (IF count > 0 THEN count + 1 ELSE count)

\* ---- interrupt and timer callbacks (main.c:197-224) ----
\* Each callback states the whole of the program state it leaves behind.

irq_call_back_drives_led(gpio, evs) ==
    /\ flag_low_food' =
         IF gpio = LOW_FOOD_PIN /\ EDGE_FALL \in evs THEN 2
         ELSE IF gpio = LOW_FOOD_PIN /\ EDGE_RISE \in evs THEN 1
         ELSE flag_low_food
    /\ led_pin' = IF gpio = LOW_FOOD_PIN /\ EDGE_FALL \notin evs THEN 1 ELSE 0
    /\ rise_echo' = IF gpio = ECHO_PIN /\ EDGE_RISE \in evs THEN TRUE ELSE rise_echo
    /\ fall_echo' =
         IF gpio = ECHO_PIN /\ EDGE_RISE \notin evs /\ EDGE_FALL \in evs
         THEN TRUE ELSE fall_echo
    /\ flag_echo' = IF gpio = ECHO_PIN THEN TRUE ELSE flag_echo
    /\ flag_vibration' =
         IF gpio = VIBRATION_PIN /\ EDGE_RISE \in evs THEN TRUE ELSE flag_vibration
    /\ io' = {"led"}
    /\ UNCHANGED <<flag_alarm, flag_periodic, flag_trigger, rangeVars, senseVars,
                   servo_level, heater_pin, light_duty, buzzer_pin, display>>

irq_call_back_clears(gpio, evs) ==
    /\ flag_low_food' =
         IF gpio = LOW_FOOD_PIN /\ EDGE_FALL \in evs THEN 0
         ELSE IF gpio = LOW_FOOD_PIN /\ EDGE_RISE \in evs THEN 1
         ELSE flag_low_food
    /\ rise_echo' = IF gpio = ECHO_PIN /\ EDGE_RISE \in evs THEN TRUE ELSE rise_echo
    /\ fall_echo' =
         IF gpio = ECHO_PIN /\ EDGE_RISE \notin evs /\ EDGE_FALL \in evs
         THEN TRUE ELSE fall_echo
    /\ flag_echo' = IF gpio = ECHO_PIN THEN TRUE ELSE flag_echo
    /\ flag_vibration' =
         IF gpio = VIBRATION_PIN /\ EDGE_RISE \in evs THEN TRUE ELSE flag_vibration
    /\ io' = {}
    /\ UNCHANGED <<flag_alarm, flag_periodic, flag_trigger, rangeVars, senseVars, pinVars>>

irq_call_back(gpio, evs) ==
    /\ flag_low_food' =
         IF gpio = LOW_FOOD_PIN /\ EDGE_FALL \in evs THEN 2
         ELSE IF gpio = LOW_FOOD_PIN /\ EDGE_RISE \in evs THEN 1
         ELSE flag_low_food
    /\ rise_echo' = IF gpio = ECHO_PIN /\ EDGE_RISE \in evs THEN TRUE ELSE rise_echo
    /\ fall_echo' =
         IF gpio = ECHO_PIN /\ EDGE_RISE \notin evs /\ EDGE_FALL \in evs
         THEN TRUE ELSE fall_echo
    /\ flag_echo' = IF gpio = ECHO_PIN THEN TRUE ELSE flag_echo
    /\ flag_vibration' =
         IF gpio = VIBRATION_PIN /\ EDGE_RISE \in evs THEN TRUE ELSE flag_vibration
    /\ io' = {}
    /\ UNCHANGED <<flag_alarm, flag_periodic, flag_trigger, rangeVars, senseVars, pinVars>>

come_back_irq1 ==
    /\ flag_alarm' = 1
    /\ io' = {}
    /\ UNCHANGED <<flag_low_food, flag_periodic, flag_echo, flag_trigger, flag_vibration,
                   rise_echo, fall_echo, rangeVars, senseVars, pinVars>>

come_back_irq2 ==
    /\ flag_alarm' = 2
    /\ io' = {}
    /\ UNCHANGED <<flag_low_food, flag_periodic, flag_echo, flag_trigger, flag_vibration,
                   rise_echo, fall_echo, rangeVars, senseVars, pinVars>>

\* The value a feeder alarm callback returns: 0, the alarm is not rescheduled.
FeederAlarmRepeats == LED_TIMEOUT_MS
FeederAlarmReturn == 0

apagar_outputs ==
    /\ buzzer_pin' = 0
    /\ heater_pin' = 0
    /\ io' = {"buzzer"}
    /\ UNCHANGED <<flagVars, rangeVars, senseVars, servo_level, led_pin, light_duty,
                   display>>

apagar_buzzer ==
    /\ buzzer_pin' = 0
    /\ io' = {"buzzer"}
    /\ UNCHANGED <<flagVars, rangeVars, senseVars, servo_level, led_pin, heater_pin,
                   light_duty, display>>

periodic_irq ==
    /\ flag_periodic' = 1
    /\ io' = {}
    /\ UNCHANGED <<flag_alarm, flag_low_food, flag_echo, flag_trigger, flag_vibration,
                   rise_echo, fall_echo, rangeVars, senseVars, pinVars>>

timer_callback ==
    /\ flag_trigger' = TRUE
    /\ io' = {}
    /\ UNCHANGED <<flag_alarm, flag_low_food, flag_periodic, flag_echo, flag_vibration,
                   rise_echo, fall_echo, rangeVars, senseVars, pinVars>>

\* ---- the control loop (main.c:111-191, source/main.c:156-227) ----
\* A history counter, saturating one above the event budget.
Bump(n) == IF n <= budget THEN n + 1 ELSE n

\* add_alarm_in_ms(ms, cb, NULL, true).  An alarm is fresh until the statement after
\* its add_alarm_in_ms has run: a delay of 500 or 3000 ms does not elapse between
\* two adjacent statements of the loop, so a fresh alarm does not fire.
Armed(cb, ms) == Append(alarms, [cb |-> cb, ms |-> ms, fresh |-> TRUE])
Settled == [i \in DOMAIN alarms |-> [alarms[i] EXCEPT !.fresh = FALSE]]

\* -- history of a loop step --
\* The steps that test an event flag, one at the head of each if of the loop.
CheckLabels == {"alarm1", "alarm2", "food1", "food2", "periodic", "trigger", "echo",
                "vibration"}

\* The step writes the cleared value over a set event flag.
FlagCleared ==
    \/ flag_alarm # 0 /\ flag_alarm' = 0
    \/ flag_low_food # 0 /\ flag_low_food' = 0
    \/ flag_periodic # 0 /\ flag_periodic' = 0
    \/ flag_trigger /\ ~flag_trigger'
    \/ flag_echo /\ ~flag_echo'
    \/ flag_vibration /\ ~flag_vibration'

\* What the step does: its I/O, the clearing of a flag, the capture of a timestamp
\* (main.c:174, 177), the restart of the vibration count (main.c:189).
Performed ==
    io' \cup (IF FlagCleared THEN {"clear"} ELSE {})
        \cup (IF pc \in {"echo_rise_do", "echo_fall_do"} THEN {"timestamp"} ELSE {})
        \cup (IF pc = "vibration_count" THEN {"count"} ELSE {})

\* work: what the loop has done since its latest test of an event flag.
WorkNext == (IF pc \in CheckLabels THEN {} ELSE work) \cup Performed

\* unseen: for each source, its events since the loop last read a set flag of it (the
\* latest edge of the food and echo lines, the number of ticks and of pulses up to 2),
\* and whether the loop has consumed a vibration that no tick has reported yet.
Seen(n) == IF n < 2 THEN n + 1 ELSE n

\* twin: the trigger and vibration variables as the loop of the other variant holds
\* them after the same callbacks and the same loop steps.  The twin tests its trigger
\* condition when this loop tests its own; it clears flag_trigger and issues its pulse
\* at this loop's steps for them, or at the test when this loop skips the branch.  The
\* echo branch is the same code in both variants.  The twin is kept in the
\* behaviours that start with it switched on.
Other == 3 - variant

TwinNext ==
    LET t     == unseen.twin
        whole == pc = "trigger" /\ pc' = "echo"
        asked == IF pc = "trigger"
                 THEN Requested(Other, t.flag_trigger, t.trigger_ready)
                 ELSE t.seen
        clear == asked /\ (pc = "trigger_clear" \/ whole)
        fire  == asked /\ Fires(Other, t.trigger_ready) /\ (pc = "trigger_fire" \/ whole)
    IN  IF ~t.on THEN t ELSE
        [on              |-> TRUE,
         flag_trigger    |-> IF clear THEN FALSE ELSE t.flag_trigger,
         trigger_ready   |-> IF fire THEN FALSE
                             ELSE IF pc = "echo_fall_do" THEN TRUE ELSE t.trigger_ready,
         seen            |-> IF pc = "trigger" THEN asked /\ ~whole
                             ELSE IF pc = "trigger_fire" THEN FALSE ELSE t.seen,
         pulsed          |-> IF pc \in {"trigger", "trigger_fire"} THEN fire ELSE t.pulsed,
         vibration_count |-> IF pc = "vibration_count" THEN 1
                             ELSE IF pc = "report"
                                  THEN VibCount(Other, t.vibration_count)
                                  ELSE t.vibration_count,
         vibration_value |-> IF pc = "report" THEN VibValue(t.vibration_count)
                             ELSE t.vibration_value]

UnseenNext ==
    [food      |-> IF pc \in {"food1", "food2"} /\ "led" \in io'
                   THEN "none" ELSE unseen.food,
     echo      |-> IF pc' \in {"echo_rise_do", "echo_fall_do"}
                   THEN "none" ELSE unseen.echo,
     periodic  |-> IF pc = "periodic" /\ pc' = "periodic_clear"
                   THEN 0 ELSE unseen.periodic,
     vibration |-> IF pc = "vibration" /\ pc' = "vibration_clear"
                   THEN 0 ELSE unseen.vibration,
     consumed  |-> IF pc = "vibration_count" THEN TRUE
                   ELSE IF pc = "report" THEN FALSE ELSE unseen.consumed,
     twin      |-> TwinNext]

\* -- feeder timeout flags (main.c:112-122) --
Alarm1Check ==
    IF flag_alarm = 1
    THEN /\ servo_level' = food_control(FOOD_OPEN)
         /\ n_open' = Bump(n_open)
         /\ io' = {"servo"}
         /\ pc' = "alarm1_clear"
         /\ UNCHANGED <<flagVars, rangeVars, senseVars, led_pin, heater_pin, light_duty,
                        buzzer_pin, display, alarms, echo_line, since_pulse, n_close,
                        pushed>>
    ELSE /\ pc' = "alarm2"
         /\ io' = {}
         /\ UNCHANGED <<flagVars, rangeVars, senseVars, pinVars, alarms, echo_line,
                        since_pulse, feedHist, pushed>>

Alarm1ClearKeepsFlag ==
    /\ pc' = "alarm1_arm"
    /\ io' = {}
    /\ UNCHANGED <<flagVars, rangeVars, senseVars, pinVars, alarms, echo_line,
                   since_pulse, feedHist, pushed>>

Alarm1Clear ==
    /\ flag_alarm' = 0
    /\ pc' = "alarm1_arm"
    /\ io' = {}
    /\ UNCHANGED <<flag_low_food, flag_periodic, flag_echo, flag_trigger, flag_vibration,
                   rise_echo, fall_echo, rangeVars, senseVars, pinVars, alarms,
                   echo_line, since_pulse, feedHist, pushed>>

Alarm1Arm ==
    /\ alarms' = Armed("come_back_irq2", LED_TIMEOUT_MS)
    /\ pc' = "alarm2"
    /\ io' = {}
    /\ UNCHANGED <<flagVars, rangeVars, senseVars, pinVars, echo_line, since_pulse,
                   feedHist, pushed>>

Alarm2Check ==
    /\ alarms' = Settled
    /\ IF flag_alarm = 2
       THEN /\ servo_level' = food_control(FOOD_CLOSE)
            /\ n_close' = Bump(n_close)
            /\ io' = {"servo"}
            /\ pc' = "alarm2_clear"
            /\ UNCHANGED <<flagVars, rangeVars, senseVars, led_pin, heater_pin, light_duty,
                           buzzer_pin, display, echo_line, since_pulse, n_open, pushed>>
       ELSE /\ pc' = "food1"
            /\ io' = {}
            /\ UNCHANGED <<flagVars, rangeVars, senseVars, pinVars, echo_line,
                           since_pulse, feedHist, pushed>>

Alarm2Clear ==
    /\ flag_alarm' = 0
    /\ pc' = "alarm2_arm"
    /\ io' = {}
    /\ UNCHANGED <<flag_low_food, flag_periodic, flag_echo, flag_trigger, flag_vibration,
                   rise_echo, fall_echo, rangeVars, senseVars, pinVars, alarms,
                   echo_line, since_pulse, feedHist, pushed>>

Alarm2ArmSameCallback ==
    /\ alarms' = Armed("come_back_irq2", LED_TIMEOUT_MS)
    /\ pc' = "food1"
    /\ io' = {}
    /\ UNCHANGED <<flagVars, rangeVars, senseVars, pinVars, echo_line, since_pulse,
                   feedHist, pushed>>

Alarm2Arm ==
    /\ alarms' = Armed("come_back_irq1", LED_TIMEOUT_MS)
    /\ pc' = "food1"
    /\ io' = {}
    /\ UNCHANGED <<flagVars, rangeVars, senseVars, pinVars, echo_line, since_pulse,
                   feedHist, pushed>>

LoopFeeder ==
    /\ pc \in {"alarm1", "alarm1_clear", "alarm1_arm", "alarm2", "alarm2_clear",
               "alarm2_arm"}
    /\ CASE pc = "alarm1"       -> Alarm1Check
         [] pc = "alarm1_clear" -> Alarm1Clear
         [] pc = "alarm1_arm"   -> Alarm1Arm
         [] pc = "alarm2"       -> Alarm2Check
         [] pc = "alarm2_clear" -> Alarm2Clear
         [] pc = "alarm2_arm"   -> Alarm2Arm
    /\ work' = WorkNext
    /\ unseen' = UnseenNext
    /\ UNCHANGED statusVars
    /\ UNCHANGED loopFrame

\* -- food sensor flag (main.c:124-134) --
FoodCheckSilent(edge, level, hit, miss) ==
    IF flag_low_food = edge
    THEN /\ ir_value' = level
         /\ io' = {}
         /\ pc' = hit
         /\ UNCHANGED <<flagVars, rangeVars, Temp, lights_value, vibration_value,
                        vibration_count, heater_on, tbuffer, tindice, tcontador,
                        lbuffer, lindice, lcontador, pinVars>>
    ELSE /\ pc' = miss
         /\ io' = {}
         /\ UNCHANGED <<flagVars, rangeVars, senseVars, pinVars>>

FoodCheck(edge, level, hit, miss) ==
    IF flag_low_food = edge
    THEN /\ led_pin' = level
         /\ ir_value' = level
         /\ io' = {"led"}
         /\ pc' = hit
         /\ UNCHANGED <<flagVars, rangeVars, Temp, lights_value, vibration_value,
                        vibration_count, heater_on, tbuffer, tindice, tcontador,
                        lbuffer, lindice, lcontador, servo_level, heater_pin,
                        light_duty, buzzer_pin, display>>
    ELSE /\ pc' = miss
         /\ io' = {}
         /\ UNCHANGED <<flagVars, rangeVars, senseVars, pinVars>>

FoodClear(next) ==
    /\ flag_low_food' = 0
    /\ pc' = next
    /\ io' = {}
    /\ UNCHANGED <<flag_alarm, flag_periodic, flag_echo, flag_trigger, flag_vibration,
                   rise_echo, fall_echo, rangeVars, senseVars, pinVars>>

LoopFood ==
    /\ pc \in {"food1", "food1_clear", "food2", "food2_clear"}
    /\ CASE pc = "food1"       -> FoodCheck(1, 1, "food1_clear", "food2")
         [] pc = "food1_clear" -> FoodClear("food2")
         [] pc = "food2"       -> FoodCheck(2, 0, "food2_clear", "periodic")
         [] pc = "food2_clear" -> FoodClear("periodic")
    /\ alarms' = Settled
    /\ work' = WorkNext
    /\ unseen' = UnseenNext
    /\ UNCHANGED statusVars
    /\ UNCHANGED <<echo_line, since_pulse, feedHist, pushed>>
    /\ UNCHANGED loopFrame

\* -- periodic tick flag (main.c:136-160, source/main.c:181-199) --
\* temperature_control and lights_control, run when the flag is seen.
PeriodicCheck ==
    IF flag_periodic = 1
    THEN LET tp    == media_movil(read_temperature)
             on    == HeaterNext(tp.avg, heater_on)
             lp    == media_movil2(adc_light)
             level == LightLevel(lp.avg)
         IN  /\ Temp' = tp.avg
             /\ tbuffer' = tp.buffer /\ tindice' = tp.pos /\ tcontador' = tp.count
             /\ heater_on' = on
             /\ heater_pin' = IF on # heater_on THEN (IF on THEN 1 ELSE 0) ELSE heater_pin
             /\ lbuffer' = lp.buffer /\ lindice' = lp.pos /\ lcontador' = lp.count
             /\ light_duty' = LightDuty(level, LightTop)
             /\ lights_value' = level
             /\ io' = {"light"} \cup (IF on # heater_on THEN {"heater"} ELSE {})
             /\ n_tick' = Bump(n_tick)
             /\ pc' = "periodic_clear"
             /\ UNCHANGED <<flagVars, ir_value, vibration_value, vibration_count,
                            servo_level, led_pin, buzzer_pin, display, report, diag,
                            n_report, n_render>>
    ELSE /\ pc' = "trigger"
         /\ io' = {}
         /\ UNCHANGED <<flagVars, senseVars, pinVars, statusVars>>

\* vibration_value and vibration_count after a tick, in each variant.
VibrationReportSticky == IF vibration_count > 0 THEN 1 ELSE 0

VibrationReport == VibValue(vibration_count)
VibrationCountNext == VibCount(variant, vibration_count)

\* flag_periodic = 0;
PeriodicClear ==
    /\ flag_periodic' = 0
    /\ io' = {}
    /\ pc' = "report"
    /\ UNCHANGED <<flag_alarm, flag_low_food, flag_echo, flag_trigger, flag_vibration,
                   rise_echo, fall_echo, senseVars, pinVars, alarms, statusVars>>

\* printf(" %.2f %.2f %.2f %d %d\n", Temp, lights_value, distance, ir_value,
\* vibration_value), then the vibration report of this tick.
StatusLine ==
    [text |-> "status", temp |-> Temp, light |-> lights_value, dist |-> distance,
     ir |-> ir_value, vib |-> vibration_value]

\* Nothing printed yet.
NoLine ==
    [text |-> "none", temp |-> Rat(0, 1), light |-> 0, dist |-> Rat(0, 1), ir |-> 0,
     vib |-> 0]

Report ==
    /\ report' = StatusLine
    /\ n_report' = Bump(n_report)
    /\ vibration_value' = VibrationReport
    /\ vibration_count' = VibrationCountNext
    /\ io' = {"printf"}
    /\ pc' = IF VibrationReport = 1 THEN "buzzer_on" ELSE "display"
    /\ UNCHANGED <<flagVars, Temp, lights_value, ir_value, heater_on,
                   tbuffer, tindice, tcontador, lbuffer, lindice, lcontador, pinVars,
                   alarms, diag, n_tick, n_render>>

BuzzerOn ==
    /\ buzzer_pin' = 1
    /\ io' = {"buzzer"}
    /\ pc' = "buzzer_arm"
    /\ UNCHANGED <<flagVars, senseVars, servo_level, led_pin, heater_pin, light_duty,
                   display, alarms, statusVars>>

BuzzerArm ==
    /\ alarms' = Armed("apagar_buzzer", BUZZER_MS)
    /\ io' = {}
    /\ pc' = "display"
    /\ UNCHANGED <<flagVars, senseVars, pinVars, statusVars>>

\* oled_update_display(&oled, Temp, lights_value * 0.122f, distance, ir_value,
\* vibration_value)
\* The five lines ssd1306_draw_string puts into the frame buffer.
LuxUnscaled(level) == Rat(level, 1)
Lux(level) == Rat(level * 122, 1000)

Frame ==
    [text |-> "status", temp |-> Temp, lux |-> Lux(lights_value), dist |-> distance,
     ir |-> ir_value, vib |-> vibration_value]

\* A screen that shows one line of text (the greeting of main.c:69) or nothing.
Screen(text) ==
    [text |-> text, temp |-> Rat(0, 1), lux |-> Rat(0, 1), dist |-> Rat(0, 1),
     ir |-> 0, vib |-> 0]

\* fancy_write's message for a write the bus does not acknowledge (ssd1306.c:58).
NackMessage == "addr not acknowledged!"

\* With the buffer ssd1306_init allocated the frame is drawn and shown ("ok"); on a
\* bus that does not acknowledge, every write is reported and nothing is shown
\* ("nack"); after ssd1306_init returned false ("nomem") buffer is NULL, and the
\* writes ssd1306_draw_pixel and ssd1306_show make through it are undefined: they
\* are ignored, or they fault and the loop stops.
RenderOutcomes ==
    IF oled = "nomem" THEN {"ignored", "fault"}
    ELSE IF oled = "nack" THEN {"unacknowledged"}
    ELSE {"shown"}

Display ==
    \E outcome \in RenderOutcomes :
       /\ display' = IF outcome = "shown" THEN Frame ELSE display
       /\ diag' = IF outcome = "unacknowledged" THEN diag \cup {NackMessage} ELSE diag
       /\ n_render' = Bump(n_render)
       /\ io' = {"oled"}
       /\ pc' = IF outcome = "fault" THEN "fault" ELSE "trigger"
       /\ alarms' = Settled
       /\ UNCHANGED <<flagVars, senseVars, servo_level, led_pin, heater_pin, light_duty,
                      buzzer_pin, report, n_tick, n_report>>

LoopPeriodic ==
    /\ pc \in {"periodic", "periodic_clear", "report", "buzzer_on", "buzzer_arm",
               "display"}
    /\ CASE pc = "periodic"       -> PeriodicCheck /\ UNCHANGED alarms
         [] pc = "periodic_clear" -> PeriodicClear
         [] pc = "report"         -> Report
         [] pc = "buzzer_on"      -> BuzzerOn
         [] pc = "buzzer_arm"     -> BuzzerArm
         [] pc = "display"        -> Display
    /\ work' = WorkNext
    /\ unseen' = UnseenNext
    /\ UNCHANGED <<rangeVars, echo_line, since_pulse, feedHist, pushed>>
    /\ UNCHANGED loopFrame

\* -- trigger request flag (main.c:162-168, source/main.c:201-205) --
\* Variant 1 tests trigger_ready after it has cleared flag_trigger; variant 2 tests
\* both in the one condition.
TriggerSeenAnyway == flag_trigger
TriggerSeen == Requested(variant, flag_trigger, trigger_ready)

TriggerCheck ==
    /\ pc' = IF TriggerSeen THEN "trigger_clear" ELSE "echo"
    /\ io' = {}
    /\ UNCHANGED <<flagVars, rangeVars, echo_line, since_pulse>>

TriggerClear ==
    /\ flag_trigger' = FALSE
    /\ pc' = "trigger_fire"
    /\ io' = {}
    /\ UNCHANGED <<flag_alarm, flag_low_food, flag_periodic, flag_echo, flag_vibration,
                   rise_echo, fall_echo, rangeVars, echo_line, since_pulse>>

\* if (trigger_ready), which variant 2 has already tested in TriggerSeen.
AlwaysFires == TRUE
CanFire == Fires(variant, trigger_ready)

\* trigger_ready = false; trigger_pulse(): the pulse on TRIG_PIN starts a measurement
\* of an idle sensor.
TriggerFire ==
    IF CanFire
    THEN /\ trigger_ready' = FALSE
         /\ echo_line' = IF echo_line = "idle" THEN "armed" ELSE echo_line
         /\ since_pulse' = "pulsed"
         /\ io' = {"trig"}
         /\ pc' = "echo"
         /\ UNCHANGED <<flagVars, echo_start, echo_end, duracion, window, wpos, wcount,
                        distance, elapsed>>
    ELSE /\ pc' = "echo"
         /\ io' = {}
         /\ UNCHANGED <<flagVars, rangeVars, echo_line, since_pulse>>

LoopTrigger ==
    /\ pc \in {"trigger", "trigger_clear", "trigger_fire"}
    /\ CASE pc = "trigger"       -> TriggerCheck
         [] pc = "trigger_clear" -> TriggerClear
         [] pc = "trigger_fire"  -> TriggerFire
    /\ work' = WorkNext
    /\ unseen' = UnseenNext
    /\ UNCHANGED statusVars
    /\ UNCHANGED <<senseVars, pinVars, alarms, feedHist, pushed>>
    /\ UNCHANGED loopFrame

\* -- echo flag (main.c:170-185, source/main.c:207-221) --
time_us_32 == now

EchoCheck ==
    /\ pc' = IF flag_echo THEN "echo_clear" ELSE "vibration"
    /\ io' = {}
    /\ UNCHANGED <<flagVars, rangeVars, since_pulse>>

EchoClear ==
    /\ flag_echo' = FALSE
    /\ pc' = "echo_rise"
    /\ io' = {}
    /\ UNCHANGED <<flag_alarm, flag_low_food, flag_periodic, flag_trigger,
                   flag_vibration, rise_echo, fall_echo, rangeVars, since_pulse>>

EchoRiseCheck ==
    /\ pc' = IF rise_echo THEN "echo_rise_do" ELSE "echo_fall"
    /\ io' = {}
    /\ UNCHANGED <<flagVars, rangeVars, since_pulse>>

\* rise_echo = false; echo_start = time_us_32();
EchoRiseDoFallsThrough ==
    /\ rise_echo' = FALSE
    /\ echo_start' = time_us_32
    /\ elapsed' = 0
    /\ pc' = "echo_fall"
    /\ io' = {}
    /\ UNCHANGED <<flag_alarm, flag_low_food, flag_periodic, flag_echo, flag_trigger,
                   flag_vibration, fall_echo, echo_end, trigger_ready, duracion,
                   window, wpos, wcount, distance, since_pulse>>

EchoRiseDo ==
    /\ rise_echo' = FALSE
    /\ echo_start' = time_us_32
    /\ elapsed' = 0
    /\ pc' = "vibration"
    /\ io' = {}
    /\ UNCHANGED <<flag_alarm, flag_low_food, flag_periodic, flag_echo, flag_trigger,
                   flag_vibration, fall_echo, echo_end, trigger_ready, duracion,
                   window, wpos, wcount, distance, since_pulse>>

EchoFallCheck ==
    /\ pc' = IF fall_echo THEN "echo_fall_do" ELSE "vibration"
    /\ io' = {}
    /\ UNCHANGED <<flagVars, rangeVars, since_pulse>>

\* trigger_ready = true, after the range test and outside it (main.c:183).
ReadyOnlyIfAccepted(d) == Accepted(d)
ReadyAfterFall(d) == TRUE

\* fall_echo = false; echo_end = time_us_32(); duracion = echo_end - echo_start;
\* distancia = duracion / 58.0f; accepted: distance = moving_average(distancia);
\* trigger_ready = true.
EchoFallDo ==
    LET d == Sub32(time_us_32, echo_start)
        m == moving_average(d.lo)
    IN  /\ fall_echo' = FALSE
        /\ echo_end' = time_us_32
        /\ duracion' = d
        /\ IF Accepted(d)
           THEN /\ window' = m.buffer /\ wpos' = m.pos /\ wcount' = m.count
                /\ distance' = m.avg
           ELSE UNCHANGED <<window, wpos, wcount, distance>>
        /\ trigger_ready' = ReadyAfterFall(d)
        /\ since_pulse' = IF since_pulse = "pulsed" THEN "fall_done" ELSE since_pulse
        /\ pc' = "vibration"
        /\ io' = {}
        /\ UNCHANGED <<flag_alarm, flag_low_food, flag_periodic, flag_echo,
                       flag_trigger, flag_vibration, rise_echo, echo_start, elapsed>>

LoopEcho ==
    /\ pc \in {"echo", "echo_clear", "echo_rise", "echo_rise_do", "echo_fall",
               "echo_fall_do"}
    /\ CASE pc = "echo"         -> EchoCheck
         [] pc = "echo_clear"   -> EchoClear
         [] pc = "echo_rise"    -> EchoRiseCheck
         [] pc = "echo_rise_do" -> EchoRiseDo
         [] pc = "echo_fall"    -> EchoFallCheck
         [] pc = "echo_fall_do" -> EchoFallDo
    /\ work' = WorkNext
    /\ unseen' = UnseenNext
    /\ UNCHANGED statusVars
    /\ UNCHANGED <<senseVars, pinVars, alarms, echo_line, feedHist, pushed>>
    /\ UNCHANGED loopFrame

\* -- vibration flag (main.c:187-190) --
VibrationCheck ==
    /\ pc' = IF flag_vibration THEN "vibration_clear" ELSE "alarm1"
    /\ io' = {}
    /\ UNCHANGED <<flagVars, senseVars>>

\* flag_vibration = false;
VibrationClear ==
    /\ flag_vibration' = FALSE
    /\ pc' = "vibration_count"
    /\ io' = {}
    /\ UNCHANGED <<flag_alarm, flag_low_food, flag_periodic, flag_echo, flag_trigger,
                   rise_echo, fall_echo, senseVars>>

\* vibration_count = 1;
VibrationCount ==
    /\ vibration_count' = 1
    /\ pc' = "alarm1"
    /\ io' = {}
    /\ UNCHANGED <<flagVars, Temp, lights_value, ir_value, vibration_value, heater_on,
                   tbuffer, tindice, tcontador, lbuffer, lindice, lcontador>>

LoopVibration ==
    /\ pc \in {"vibration", "vibration_clear", "vibration_count"}
    /\ CASE pc = "vibration"       -> VibrationCheck
         [] pc = "vibration_clear" -> VibrationClear
         [] pc = "vibration_count" -> VibrationCount
    /\ work' = WorkNext
    /\ unseen' = UnseenNext
    /\ UNCHANGED statusVars
    /\ UNCHANGED <<rangeVars, pinVars, alarms, echo_line, since_pulse, feedHist, pushed>>
    /\ UNCHANGED loopFrame

\* One step of the loop.
Loop ==
    \/ LoopFeeder
    \/ LoopFood
    \/ LoopPeriodic
    \/ LoopTrigger
    \/ LoopEcho
    \/ LoopVibration

\* ---- the environment: interrupt sources, timers, the clock ----
\* After a fault in the loop the core stays in the fault handler, which no interrupt
\* preempts: callbacks run only while the program is running.
Running == pc # "fault"

\* One interrupt, timer expiry or clock advance, within the behaviour's budget.
Event ==
    /\ Running
    /\ events < budget
    /\ events' = events + 1
    /\ UNCHANGED <<variant, pc, budget, sel, ret, pushed, oled, statusVars, work>>

RemoveAt(seq, i) == SubSeq(seq, 1, i - 1) \o SubSeq(seq, i + 1, Len(seq))

\* The clock advances by these amounts (microseconds).
TimeSteps == {1, 350, 23199}

Tick ==
    /\ Event
    /\ \E dt \in TimeSteps :
          /\ now' = Add32(now, dt)
          /\ elapsed' = elapsed + dt
    /\ io' = {}
    /\ UNCHANGED <<flagVars, echo_start, echo_end, trigger_ready, duracion, window, wpos,
                   wcount, distance, senseVars, pinVars, alarms, echo_line,
                   low_food_level, adc_temp, adc_light, histVars, unseen>>

\* The 200 ms repeating timer (main.c:103).
TriggerTimer ==
    /\ Event
    /\ timer_callback
    /\ unseen' = [unseen EXCEPT !.twin.flag_trigger = unseen.twin.on]
    /\ UNCHANGED <<alarms, envVars, histVars>>

\* The 500 ms repeating timer (main.c:96).
PeriodicTimer ==
    /\ Event
    /\ periodic_irq
    /\ unseen' = [unseen EXCEPT !.periodic = Seen(@)]
    /\ UNCHANGED <<alarms, envVars, histVars>>

\* The sensor answers a trigger pulse by raising its echo line, and later lowers it.
EchoRiseEdge ==
    /\ echo_line = "armed"
    /\ echo_line' = "high"
    /\ rise_at' = now
    /\ irq_call_back(ECHO_PIN, {EDGE_RISE})
    /\ unseen' = [unseen EXCEPT !.echo = EDGE_RISE]
    /\ UNCHANGED <<alarms, now, low_food_level, adc_temp, adc_light, fall_at,
                   since_pulse, feedHist, n_irq1, n_irq2, n_rise>>

EchoFallEdge ==
    /\ echo_line = "high"
    /\ echo_line' = "idle"
    /\ fall_at' = now
    /\ irq_call_back(ECHO_PIN, {EDGE_FALL})
    /\ unseen' = [unseen EXCEPT !.echo = EDGE_FALL]
    /\ UNCHANGED <<alarms, now, low_food_level, adc_temp, adc_light, rise_at,
                   since_pulse, feedHist, n_irq1, n_irq2, n_rise>>

EchoRise == Event /\ EchoRiseEdge
EchoFall == Event /\ EchoFallEdge

\* The same two edges as the answer a working sensor always gives to a pulse: they
\* follow from the pulse and are not counted as events of their own.
eventFrame == <<events, variant, pc, budget, sel, ret, pushed, oled, statusVars, work>>

SensorRise == EchoRiseEdge /\ UNCHANGED eventFrame
SensorFall == EchoFallEdge /\ UNCHANGED eventFrame

\* The food sensor's line changes level.
FoodRise ==
    /\ Event
    /\ low_food_level = 0
    /\ low_food_level' = 1
    /\ n_rise' = Bump(n_rise)
    /\ irq_call_back(LOW_FOOD_PIN, {EDGE_RISE})
    /\ unseen' = [unseen EXCEPT !.food = EDGE_RISE]
    /\ UNCHANGED <<alarms, now, echo_line, adc_temp, adc_light, rise_at, fall_at,
                   since_pulse, feedHist, n_irq1, n_irq2>>

FoodFall ==
    /\ Event
    /\ low_food_level = 1
    /\ low_food_level' = 0
    /\ irq_call_back(LOW_FOOD_PIN, {EDGE_FALL})
    /\ unseen' = [unseen EXCEPT !.food = EDGE_FALL]
    /\ UNCHANGED <<alarms, now, echo_line, adc_temp, adc_light, histVars>>

VibrationPulse ==
    /\ Event
    /\ irq_call_back(VIBRATION_PIN, {EDGE_RISE})
    /\ unseen' = [unseen EXCEPT !.vibration = Seen(@)]
    /\ UNCHANGED <<alarms, envVars, histVars>>

\* An armed alarm that is no longer fresh expires and its callback runs; a callback
\* that returns 0 is not rescheduled.
FireComeBackIrq1 ==
    /\ Event
    /\ \E i \in DOMAIN alarms :
          /\ alarms[i].cb = "come_back_irq1"
          /\ ~alarms[i].fresh
          /\ alarms' = IF FeederAlarmReturn = 0 THEN RemoveAt(alarms, i) ELSE alarms
    /\ come_back_irq1
    /\ n_irq1' = Bump(n_irq1)
    /\ UNCHANGED <<envVars, rise_at, fall_at, since_pulse, feedHist, n_irq2, n_rise,
                   unseen>>

FireComeBackIrq2 ==
    /\ Event
    /\ \E i \in DOMAIN alarms :
          /\ alarms[i].cb = "come_back_irq2"
          /\ ~alarms[i].fresh
          /\ alarms' = IF FeederAlarmReturn = 0 THEN RemoveAt(alarms, i) ELSE alarms
    /\ come_back_irq2
    /\ n_irq2' = Bump(n_irq2)
    /\ UNCHANGED <<envVars, rise_at, fall_at, since_pulse, feedHist, n_irq1, n_rise,
                   unseen>>

BuzzerExpiry ==
    /\ \E i \in DOMAIN alarms :
          /\ alarms[i].cb = "apagar_buzzer"
          /\ ~alarms[i].fresh
          /\ alarms' = RemoveAt(alarms, i)
    /\ apagar_buzzer
    /\ UNCHANGED <<envVars, histVars, unseen>>

FireApagarBuzzer == Event /\ BuzzerExpiry

\* The same expiry as what the alarm pool always does 500 ms after the alarm was
\* armed: it follows from the arming and is not counted as an event of its own.
BuzzerTimeout == Running /\ BuzzerExpiry /\ UNCHANGED eventFrame

\* The ADC inputs: the temperature sensor on channel 0 (read_temperature) and the
\* light sensor on channel 1 (read_lights) change between two conversions.  The
\* temperature readings are the ADC counts nearest to 24, 25.5, 26.5 and 27 C; the
\* light readings lie on both sides of every threshold of lights_control.
NearestCount(centi) == (centi * AdcMax + 16500) \div 33000

TempReadings ==
    {NearestCount(2400), NearestCount(2550), NearestCount(2650), NearestCount(2700)}
LightReadings == {499, 500, 599, 600, 799, 800, 1099, 1100, 1599, 1600}

AdcTemp ==
    /\ Event
    /\ \E raw \in TempReadings \ {adc_temp} : adc_temp' = raw
    /\ io' = {}
    /\ UNCHANGED <<flagVars, rangeVars, senseVars, pinVars, alarms, now, echo_line,
                   low_food_level, adc_light, histVars, unseen>>

AdcLight ==
    /\ Event
    /\ \E raw \in LightReadings \ {adc_light} : adc_light' = raw
    /\ io' = {}
    /\ UNCHANGED <<flagVars, rangeVars, senseVars, pinVars, alarms, now, echo_line,
                   low_food_level, adc_temp, histVars, unseen>>

\* ---- initial state: the globals' initialisers and main's set-up (main.c:26-108) ----
TempSamples  == {300, 330}
LightSamples == {450, 1700}
StartTimes   == {U32(0, 1000), U32(65535, 65000)}

\* ssd1306_init's outcomes: the buffer allocated and the display answering ("ok"),
\* the buffer allocated and the bus not acknowledging ("nack"), malloc returning
\* NULL and ssd1306_init false ("nomem").
OledOutcomes == {"ok", "nack", "nomem"}

\* main.c:65-71: the message of a failed initialisation, or the greeting drawn and
\* shown; fancy_write reports each write that is not acknowledged.
InitDiag(o) ==
    IF o = "nomem" THEN {"Error al inicializar OLED"}
    ELSE IF o = "nack" THEN {NackMessage}
    ELSE {}

InitBoth(starts, levels, temps, lights, oleds, twins) ==
    /\ variant \in {1, 2}
    /\ oled \in oleds
    /\ diag = InitDiag(oled)
    /\ report = NoLine
    /\ work = {}
    /\ unseen = [food |-> "none", echo |-> "none", periodic |-> 0, vibration |-> 0,
                 consumed |-> FALSE,
                 twin |-> [on |-> twins, flag_trigger |-> FALSE,
                           trigger_ready |-> TRUE, seen |-> FALSE, pulsed |-> FALSE,
                           vibration_count |-> 0, vibration_value |-> 0]]
    /\ n_tick = 0 /\ n_report = 0 /\ n_render = 0
    /\ pc = "alarm1"
    /\ io = {}
    /\ flag_alarm = 0 /\ flag_low_food = 0 /\ flag_periodic = 0
    /\ flag_echo = FALSE /\ flag_trigger = FALSE /\ flag_vibration = FALSE
    /\ rise_echo = FALSE /\ fall_echo = FALSE
    /\ echo_start = U32(0, 0) /\ echo_end = U32(0, 0)
    /\ elapsed = 0
    /\ trigger_ready = TRUE
    /\ duracion = U32(0, 0)
    /\ window = EmptyWindow(WINDOW_SIZE) /\ wpos = 0 /\ wcount = 0
    /\ distance = Rat(0, 1)
    /\ Temp = Rat(0, 1) /\ lights_value = 0
    /\ ir_value = 0 /\ vibration_value = 0 /\ vibration_count = 0
    /\ heater_on = FALSE
    /\ tbuffer = EmptyWindow(TEMP_WINDOW_SIZE) /\ tindice = 0 /\ tcontador = 0
    /\ lbuffer = EmptyWindow(LIGHT_WINDOW_SIZE) /\ lindice = 0 /\ lcontador = 0
    /\ servo_level = food_control(FOOD_CLOSE)
    /\ led_pin = 0 /\ heater_pin = 0 /\ light_duty = 0 /\ buzzer_pin = 0
    /\ display = Screen(IF oled = "ok" THEN "OLED lista!" ELSE "")
    /\ alarms = <<[cb |-> "come_back_irq1", ms |-> LED_TIMEOUT_MS, fresh |-> FALSE]>>
    /\ now \in starts
    /\ echo_line = "idle"
    /\ low_food_level \in levels
    /\ adc_temp \in temps
    /\ adc_light \in lights
    /\ rise_at = U32(0, 0) /\ fall_at = U32(0, 0)
    /\ since_pulse = "none"
    /\ n_open = 0 /\ n_close = 0 /\ n_irq1 = 0 /\ n_irq2 = 0 /\ n_rise = 0
    /\ pushed = <<>>
    /\ ret = Rat(0, 1)
    /\ events = 0

InitDevice(starts, levels, temps, lights, oleds) ==
    InitBoth(starts, levels, temps, lights, oleds, FALSE)

\* ---- the whole device ----
Init ==
    /\ InitDevice(StartTimes, {0, 1}, TempSamples, LightSamples, {"ok"})
    /\ budget = MaxEvents
    /\ sel = "none"

Next ==
    \/ Loop
    \/ Tick
    \/ TriggerTimer
    \/ PeriodicTimer
    \/ EchoRise
    \/ EchoFall
    \/ FoodRise
    \/ FoodFall
    \/ VibrationPulse
    \/ FireComeBackIrq1
    \/ FireComeBackIrq2
    \/ FireApagarBuzzer

Spec == Init /\ [][Next]_vars

\* ---- the ranging subsystem: the loop, the trigger timer, the echo line, the clock ----
RangingInit ==
    /\ InitDevice(StartTimes, {0}, {300}, {450}, {"ok"})
    /\ budget = MaxRangingEvents
    /\ sel = "none"

RangingNext ==
    \/ Loop
    \/ Tick
    \/ TriggerTimer
    \/ EchoRise
    \/ EchoFall

RangingSpec == RangingInit /\ [][RangingNext]_vars

\* ---- the feeder subsystem: the loop, the feeder alarms, the food sensor ----
FeederInit ==
    /\ InitDevice({U32(0, 1000)}, {0, 1}, {300}, {450}, {"ok"})
    /\ budget = MaxFeederEvents
    /\ sel = "none"

FeederNext ==
    \/ Loop
    \/ FireComeBackIrq1
    \/ FireComeBackIrq2
    \/ FoodRise
    \/ FoodFall

FeederSpec == FeederInit /\ [][FeederNext]_vars

\* ---- the ranging subsystem without the clock, the loop running for ever ----
EchoNext ==
    \/ Loop
    \/ TriggerTimer
    \/ EchoRise
    \/ EchoFall

EchoFairSpec == RangingInit /\ [][EchoNext]_vars /\ WF_vars(Loop)

\* ---- the light dimmer: the loop, the periodic timer, the light sensor ----
DimmerInit ==
    /\ InitDevice({U32(0, 1000)}, {0}, {300}, LightReadings, {"ok"})
    /\ budget = MaxDimmerEvents
    /\ sel = "none"

DimmerNext ==
    \/ Loop
    \/ PeriodicTimer
    \/ AdcLight

DimmerSpec == DimmerInit /\ [][DimmerNext]_vars

\* ---- the heater: the loop, the periodic timer, the temperature sensor ----
HeaterInit ==
    /\ InitDevice({U32(0, 1000)}, {0}, TempReadings, {450}, {"ok"})
    /\ budget = MaxHeaterEvents
    /\ sel = "none"

HeaterStep ==
    \/ Loop
    \/ PeriodicTimer
    \/ AdcTemp

HeaterSpec == HeaterInit /\ [][HeaterStep]_vars

\* ---- the whole device with the loop running for ever and the sensor answering ----
ServiceInit ==
    /\ InitDevice({U32(0, 1000)}, {0}, {300}, {450}, {"ok"})
    /\ budget = MaxEvents
    /\ sel = "none"

ServiceNext ==
    \/ Loop
    \/ TriggerTimer
    \/ PeriodicTimer
    \/ SensorRise
    \/ SensorFall
    \/ FoodRise
    \/ FoodFall
    \/ VibrationPulse
    \/ FireComeBackIrq1
    \/ FireComeBackIrq2
    \/ FireApagarBuzzer

ServiceFairSpec ==
    /\ ServiceInit
    /\ [][ServiceNext]_vars
    /\ WF_vars(Loop)
    /\ WF_vars(SensorRise)
    /\ WF_vars(SensorFall)

\* ---- the status output: the loop, the periodic timer, the vibration and food
\* sensors, the buzzer alarm, with each outcome of the display's initialisation ----
StatusInit ==
    /\ InitDevice({U32(0, 1000)}, {0, 1}, {300}, {450}, OledOutcomes)
    /\ budget = MaxStatusEvents
    /\ sel = "none"

StatusNext ==
    \/ Loop
    \/ PeriodicTimer
    \/ VibrationPulse
    \/ FoodRise
    \/ FoodFall
    \/ FireApagarBuzzer

StatusSpec == StatusInit /\ [][StatusNext]_vars

\* The same with the loop running for ever.
StatusFairSpec == StatusInit /\ [][StatusNext]_vars /\ WF_vars(Loop)

\* ---- the two variants side by side: the loop, both timers, the echo edges, the
\* vibration sensor, with the other variant's loop following the same events ----
TwinInit ==
    /\ InitBoth({U32(0, 1000)}, {0}, {300}, {450}, {"ok"}, TRUE)
    /\ budget = MaxTwinEvents
    /\ sel = "none"

SideBySideNext ==
    \/ Loop
    \/ TriggerTimer
    \/ EchoRise
    \/ EchoFall
    \/ PeriodicTimer
    \/ VibrationPulse

TwinSpec == TwinInit /\ [][SideBySideNext]_vars

\* ---- food_control on its own: calls with any value of its uint8_t command ----
\* FOOD_OPEN, FOOD_CLOSE and values that are neither.
ServoCommands == {FOOD_OPEN, FOOD_CLOSE, 2, 3, 128, 255}

ServoInit ==
    /\ InitDevice({U32(0, 1000)}, {0}, {300}, {450}, {"ok"})
    /\ budget = 0
    /\ sel = "servo"

\* food_control(SERVO1_PIN, c, top): pwm_set_gpio_level(servo_gpio, top * duty_cycle).
FoodCommand ==
    /\ sel = "servo"
    /\ Len(pushed) < MaxCommands
    /\ \E c \in ServoCommands :
          /\ servo_level' = food_control(c)
          /\ pushed' = Append(pushed, c)
    /\ UNCHANGED <<variant, pc, io, flagVars, rangeVars, senseVars, led_pin, heater_pin,
                   light_duty, buzzer_pin, display, alarms, envVars, rise_at, fall_at,
                   since_pulse, n_open, n_close, n_irq1, n_irq2, n_rise, ret, events,
                   budget, sel, oled, statusVars, work, unseen>>

ServoSpec == ServoInit /\ [][FoodCommand]_vars

\* The buzzer: the loop runs for ever and every armed alarm expires.
BuzzerNext ==
    \/ Loop
    \/ PeriodicTimer
    \/ VibrationPulse
    \/ BuzzerTimeout

BuzzerFairSpec ==
    /\ StatusInit
    /\ [][BuzzerNext]_vars
    /\ WF_vars(Loop)
    /\ WF_vars(BuzzerTimeout)

\* ---- the smoothing filters on their own: pushes into one chosen filter ----
SampleValues == {2, 7}

Capacity(f) ==
    IF f = "distance" THEN WINDOW_SIZE
    ELSE IF f = "temperature" THEN TEMP_WINDOW_SIZE
    ELSE LIGHT_WINDOW_SIZE

dFilter == <<window, wpos, wcount>>
tFilter == <<tbuffer, tindice, tcontador>>
lFilter == <<lbuffer, lindice, lcontador>>
filterFrame == <<variant, pc, io, flagVars, pinVars, alarms, envVars, rise_at, fall_at,
                 since_pulse, n_open, n_close, n_irq1, n_irq2, n_rise, events, budget,
                 sel, echo_start, echo_end, trigger_ready, duracion, distance, elapsed,
                 Temp,
                 lights_value, ir_value, vibration_value, vibration_count, heater_on,
                 oled, statusVars, work, unseen>>

FilterInit ==
    /\ InitDevice({U32(0, 1000)}, {0}, {300}, {450}, {"ok"})
    /\ budget = 0
    /\ sel \in {"distance", "temperature", "light"}

PushDistance ==
    /\ sel = "distance"
    /\ Len(pushed) < WINDOW_SIZE + MaxExtraPushes
    /\ \E v \in SampleValues :
          LET m == moving_average(v)
          IN  /\ window' = m.buffer /\ wpos' = m.pos /\ wcount' = m.count
              /\ ret' = m.avg
              /\ pushed' = Append(pushed, v)
    /\ UNCHANGED <<filterFrame, tFilter, lFilter>>

PushTemperature ==
    /\ sel = "temperature"
    /\ Len(pushed) < TEMP_WINDOW_SIZE + MaxExtraPushes
    /\ \E v \in SampleValues :
          LET m == media_movil(v)
          IN  /\ tbuffer' = m.buffer /\ tindice' = m.pos /\ tcontador' = m.count
              /\ ret' = m.avg
              /\ pushed' = Append(pushed, v)
    /\ UNCHANGED <<filterFrame, dFilter, lFilter>>

PushLight ==
    /\ sel = "light"
    /\ Len(pushed) < LIGHT_WINDOW_SIZE + MaxExtraPushes
    /\ \E v \in SampleValues :
          LET m == media_movil2(v)
          IN  /\ lbuffer' = m.buffer /\ lindice' = m.pos /\ lcontador' = m.count
              /\ ret' = m.avg
              /\ pushed' = Append(pushed, v)
    /\ UNCHANGED <<filterFrame, dFilter, tFilter>>

FilterNext ==
    \/ PushDistance
    \/ PushTemperature
    \/ PushLight

FilterSpec == FilterInit /\ [][FilterNext]_vars

\* ---- the three filters together: pushes into any of them, in any order ----
\* sel is the filter of the latest push, pushed the values pushed so far, ret the
\* latest result.
mixFrame == <<variant, pc, io, flagVars, pinVars, alarms, envVars, rise_at, fall_at,
              since_pulse, n_open, n_close, n_irq1, n_irq2, n_rise, budget,
              echo_start, echo_end, trigger_ready, duracion, distance, elapsed, Temp,
              lights_value, ir_value, vibration_value, vibration_count, heater_on,
              oled, statusVars, work, unseen>>

MixedInit ==
    /\ InitDevice({U32(0, 1000)}, {0}, {300}, {450}, {"ok"})
    /\ budget = MaxMixedPushes
    /\ sel = "none"

Pushed(f, v) ==
    /\ events < budget
    /\ events' = events + 1
    /\ sel' = f
    /\ pushed' = Append(pushed, v)
    /\ UNCHANGED mixFrame

MixDistance ==
    \E v \in SampleValues :
       LET m == moving_average(v)
       IN  /\ window' = m.buffer /\ wpos' = m.pos /\ wcount' = m.count
           /\ ret' = m.avg
           /\ Pushed("distance", v)
           /\ UNCHANGED <<tFilter, lFilter>>

MixTemperature ==
    \E v \in SampleValues :
       LET m == media_movil(v)
       IN  /\ tbuffer' = m.buffer /\ tindice' = m.pos /\ tcontador' = m.count
           /\ ret' = m.avg
           /\ Pushed("temperature", v)
           /\ UNCHANGED <<dFilter, lFilter>>

MixLight ==
    \E v \in SampleValues :
       LET m == media_movil2(v)
       IN  /\ lbuffer' = m.buffer /\ lindice' = m.pos /\ lcontador' = m.count
           /\ ret' = m.avg
           /\ Pushed("light", v)
           /\ UNCHANGED <<dFilter, tFilter>>

MixedNext ==
    \/ MixDistance
    \/ MixTemperature
    \/ MixLight

MixedFilterSpec == MixedInit /\ [][MixedNext]_vars

\* =========================== claims ===========================

\* The loop's step that issues a trigger pulse, and its step that handles a fall edge.
PulseStep == pc = "trigger_fire" /\ "trig" \in io'
FallStep  == pc = "echo_fall_do" /\ pc' = "vibration"

\* C1: a trigger pulse is issued only while trigger_ready is true, the step sets it
\* false, and since the previous pulse (if any) the loop has handled a fall edge; in
\* both variants, for every interleaving of the trigger timer, the echo interrupts
\* and the loop.
C1_TriggerOnlyWhenReady ==
    [][PulseStep => /\ trigger_ready
                    /\ ~trigger_ready'
                    /\ since_pulse # "pulsed"]_vars

\* A second pulse has been issued, after a completed measurement.
C1_Witness == since_pulse = "pulsed" /\ echo_end # U32(0, 0)

\* C2: once a trigger pulse has been answered by a rise and then a fall of the echo
\* line, the loop eventually handles both and sets trigger_ready again.
C2_EchoPairProcessed ==
    (since_pulse = "pulsed" /\ echo_line = "idle" /\ ~trigger_ready) ~> trigger_ready

\* 0 < d / 58 < 400 for a duration d, on the exact quotient.
InRange(d) == d.hi = 0 /\ 1 <= d.lo /\ d.lo <= 23199

\* C7: the loop's fall step computes the duration d, and pushes d / 58 into the
\* distance filter and publishes the new average iff 1 <= d <= 23199.
C7_AcceptedIffInRange ==
    [][FallStep =>
         /\ duracion' = Sub32(echo_end', echo_start)
         /\ (wpos' # wpos) <=> InRange(duracion')
         /\ wpos' # wpos =>
              /\ window' = [window EXCEPT ![wpos] = duracion'.lo]
              /\ distance' = Rat(WindowSum(window', wcount'), wcount')]_vars

\* A measurement of 23199 us, the last accepted duration, has been accepted.
C7_Witness == duracion = U32(0, 23199) /\ wcount = 1 /\ distance = Rat(23199, 1)

\* C8: a fall step whose result is outside (0, 400) cm leaves the distance window, its
\* cursor, its count and the published distance unchanged, performs no I/O, and sets
\* trigger_ready.
C8_OutOfRangeDiscarded ==
    [][FallStep /\ ~InRange(duracion') =>
         /\ UNCHANGED <<window, wpos, wcount, distance>>
         /\ io' = {}
         /\ trigger_ready']_vars

\* After one accepted measurement a second one, of duration 0, has been discarded.
C8_Witness ==
    /\ wcount = 1
    /\ duracion = U32(0, 0)
    /\ since_pulse = "fall_done"
    /\ trigger_ready

\* C9: the duration of a measurement is the time between the echo's rising edge and
\* its falling edge, whatever the delay between each edge and the loop step that
\* handles it.
C9_DurationIsEchoWidth ==
    since_pulse = "fall_done" => duracion = Sub32(fall_at, rise_at)

\* Feeder alarms armed and not yet fired.
FeederAlarms ==
    {i \in DOMAIN alarms : alarms[i].cb \in {"come_back_irq1", "come_back_irq2"}}

\* C3, as stated: the Open commands are the ones that low-food rising edges yield, one
\* for each edge, so there are never more Open commands than rising edges.
C3_OpenYieldedByFoodEdge == n_open <= n_rise

\* C3, amended: each expiry of the come_back_irq1 alarm yields exactly one Open
\* command, which is followed, after an alarm of LED_TIMEOUT_MS (3000 ms), by exactly
\* one Close command, and no Open command is issued while a feeder alarm is pending.
C3_FeederCycle ==
    /\ n_open <= n_irq1 /\ n_irq1 <= n_open + 1
    /\ n_irq1 = n_open + 1 => flag_alarm = 1 /\ pc # "alarm1_clear"
    /\ n_close <= n_irq2 /\ n_irq2 <= n_close + 1
    /\ n_irq2 = n_close + 1 => flag_alarm = 2 /\ pc # "alarm2_clear"
    /\ n_irq2 <= n_open
    /\ n_close <= n_open /\ n_open <= n_close + 1
    /\ servo_level = food_control(IF n_open = n_close THEN FOOD_CLOSE ELSE FOOD_OPEN)
    /\ \A i \in FeederAlarms : alarms[i].ms = 3000
    /\ pc = "alarm1_clear" => FeederAlarms = {}

\* The second Open command has been issued, after one whole Open-Close cycle.
C3_Witness == n_open = 2 /\ n_close = 1 /\ pc = "alarm1_clear"

\* C4: the armed feeder alarms, plus one when flag_alarm is set, number at most one,
\* and the loop has issued an Open or Close command only with no feeder alarm pending.
C4_OneFeederTimeout ==
    /\ Cardinality(FeederAlarms) + (IF flag_alarm # 0 THEN 1 ELSE 0) <= 1
    /\ pc \in {"alarm1_clear", "alarm2_clear"} => FeederAlarms = {}

\* The Close command's return alarm is armed, the flag consumed.
C4_Witness == n_close = 1 /\ Cardinality(FeederAlarms) = 1 /\ flag_alarm = 0

\* The sum of the last k values of a sequence.
RECURSIVE SumLast(_, _)
SumLast(seq, k) ==
    IF k = 0 THEN 0 ELSE seq[Len(seq)] + SumLast(SubSeq(seq, 1, Len(seq) - 1), k - 1)

Min(a, b) == IF a < b THEN a ELSE b

\* C5: the value the m-th push returns is the arithmetic mean of the last min(m, N)
\* pushed values, for each of the three filters.
C5_AverageOfLastN ==
    pushed # <<>> =>
        LET k == Min(Len(pushed), Capacity(sel))
        IN  /\ ret.den > 0
            /\ ret.num * k = SumLast(pushed, k) * ret.den

\* N + 2 pushes into the temperature filter, the oldest and newest values differing.
C5_Witness ==
    /\ sel = "temperature"
    /\ Len(pushed) = TEMP_WINDOW_SIZE + 2
    /\ pushed[1] # pushed[Len(pushed)]
    /\ pushed[2] # pushed[1]

\* The count of the filter under test.
SelCount ==
    IF sel = "distance" THEN wcount
    ELSE IF sel = "temperature" THEN tcontador
    ELSE lcontador

\* C6: at the division of every push the divisor is the fill count, at least 1 and at
\* most the capacity, and equal to min(samples written, capacity).
C6_DivisorIsFillCount ==
    pushed # <<>> =>
        /\ ret.den = SelCount
        /\ 1 <= ret.den /\ ret.den <= Capacity(sel)
        /\ ret.den = Min(Len(pushed), Capacity(sel))

\* The light filter has been pushed past its capacity.
C6_Witness == sel = "light" /\ Len(pushed) > LIGHT_WINDOW_SIZE

\* A step that runs an interrupt or timer callback.
CallbackStep == events' # events /\ now' = now

\* The outputs, and the state the filters and the actuation decisions keep.
Outputs == <<pinVars, window, wpos, wcount, distance, senseVars>>

LoopStep == pc' # pc

\* C11: every write a callback makes to an event flag sets it (flag_alarm and
\* flag_low_food to 1 or 2, flag_periodic to 1, the others to true) and no callback
\* clears one; every write the loop makes to an event flag clears it and the loop
\* never sets one; no other step touches a flag.
C11_FlagDiscipline ==
    [][/\ CallbackStep =>
            /\ flag_alarm' \in {flag_alarm, 1, 2} /\ (flag_alarm # 0 => flag_alarm' # 0)
            /\ flag_low_food' \in {flag_low_food, 1, 2}
            /\ flag_low_food # 0 => flag_low_food' # 0
            /\ flag_periodic' \in {flag_periodic, 1}
            /\ flag_trigger => flag_trigger'
            /\ flag_echo => flag_echo'
            /\ rise_echo => rise_echo'
            /\ fall_echo => fall_echo'
            /\ flag_vibration => flag_vibration'
       /\ LoopStep =>
            /\ flag_alarm' \in {flag_alarm, 0}
            /\ flag_low_food' \in {flag_low_food, 0}
            /\ flag_periodic' \in {flag_periodic, 0}
            /\ flag_trigger' => flag_trigger
            /\ flag_echo' => flag_echo
            /\ rise_echo' => rise_echo
            /\ fall_echo' => fall_echo
            /\ flag_vibration' => flag_vibration
       /\ ~CallbackStep /\ ~LoopStep => UNCHANGED flagVars]_vars

\* The loop has consumed and cleared a feeder timeout and a food-sensor edge that
\* callbacks had set.
C11_Witness ==
    /\ n_open = 1 /\ flag_alarm = 0
    /\ ir_value = 1 /\ flag_low_food = 0 /\ n_rise = 1

C13_OneIntentPerFlag ==
    /\ flag_alarm \in {0, 1, 2}
    /\ flag_low_food \in {0, 1, 2}
    /\ flag_periodic \in {0, 1}
    /\ ~(rise_echo /\ fall_echo)

\* The level the food-sensor action writes for an edge.
EdgeLevel(edge) == IF edge = EDGE_RISE THEN 1 ELSE 0

\* C14: flags are coalesced: whenever the loop acts for a source there is an event
\* of that source it has not acted on, however many there are the loop acts once, and
\* the action is the one of the latest of them: the LED and ir_value follow the
\* latest food-sensor edge, two ticks or two vibration pulses make one handling,
\* and the echo handling is the one of the latest echo edge.
C14_CoalescedLatestOnly ==
    [][LoopStep =>
         /\ "led" \in io' =>
              /\ unseen.food # "none"
              /\ led_pin' = EdgeLevel(unseen.food)
              /\ ir_value' = EdgeLevel(unseen.food)
              /\ unseen'.food = "none"
         /\ n_tick' # n_tick => unseen.periodic >= 1 /\ unseen'.periodic = 0
         /\ pc' = "vibration_clear" => unseen.vibration >= 1 /\ unseen'.vibration = 0
         /\ pc' = "echo_rise_do" => unseen.echo = EDGE_RISE
         /\ pc' = "echo_fall_do" => unseen.echo = EDGE_FALL]_vars

\* The duty tiers of the claim: levels lo .. hi get pct percent of top.
Tiers ==
    <<[lo |-> 0,    hi |-> 499,   pct |-> 100],
      [lo |-> 500,  hi |-> 599,   pct |-> 80],
      [lo |-> 600,  hi |-> 799,   pct |-> 50],
      [lo |-> 800,  hi |-> 1099,  pct |-> 30],
      [lo |-> 1100, hi |-> 1599,  pct |-> 10],
      [lo |-> 1600, hi |-> 65535, pct |-> 0]>>

Above(t, c) == t.num > c * AdcMax * t.den
Below(t, c) == t.num < c * AdcMax * t.den

\* A step in which the loop consumes a periodic tick.
TickStep == n_tick' # n_tick

\* C16: on a tick with filtered temperature t the heater turns off iff t > 26.0 and
\* it is on, turns on iff t < 25.0 and it is off, and is otherwise unchanged, so it
\* never changes on a tick whose t lies in [25.0, 26.0]; the heater pin is written
\* exactly when the state changes and follows it; no other step touches the heater.
C16_HeaterHysteresis ==
    [][/\ TickStep =>
            /\ (heater_on /\ ~heater_on') <=> (Above(Temp', 26) /\ heater_on)
            /\ (~heater_on /\ heater_on') <=> (Below(Temp', 25) /\ ~heater_on)
            /\ ~Above(Temp', 26) /\ ~Below(Temp', 25) => heater_on' = heater_on
            /\ heater_pin' = (IF heater_on' THEN 1 ELSE 0)
            /\ ("heater" \in io') <=> (heater_on' # heater_on)
       /\ ~TickStep => UNCHANGED <<heater_on, heater_pin>>]_vars

\* The heater, turned on below 25.0, has been left on by a tick inside the dead band.
C16_Witness ==
    /\ n_tick >= 2 /\ pc = "periodic_clear"
    /\ heater_on /\ heater_pin = 1 /\ "heater" \notin io
    /\ ~Above(Temp, 26) /\ ~Below(Temp, 25)

\* The i-th temperature reading since the start (of the first ten), as the ADC
\* count it came from, and the filtered temperature of the k-th tick: the mean of
\* the first k readings.
ReadingCount(i) == tbuffer[i - 1] \div 330

RECURSIVE ReadingSum(_)
ReadingSum(k) == IF k = 0 THEN 0 ELSE tbuffer[k - 1] + ReadingSum(k - 1)

FilteredAt(k) == Rat(ReadingSum(k), k)

\* C17, as stated: from the start, heater off, a reading of 24 C turns the heater
\* on, a following reading of 25.5 C leaves it on, and a following reading of
\* 26.5 C turns it off (the readings being the nearest ADC counts).
C17_ReadingScenario ==
    /\ n_tick = 1 /\ ReadingCount(1) = NearestCount(2400) => heater_on
    /\ /\ n_tick = 2
       /\ ReadingCount(1) = NearestCount(2400)
       /\ ReadingCount(2) = NearestCount(2550)
       => heater_on
    /\ /\ n_tick = 3
       /\ ReadingCount(1) = NearestCount(2400)
       /\ ReadingCount(2) = NearestCount(2550)
       /\ ReadingCount(3) = NearestCount(2650)
       => ~heater_on

\* C17, amended: from the start, heater off, a tick whose filtered temperature is
\* below 25.0 turns the heater on, a following tick whose filtered temperature is
\* inside the dead band leaves it on, and a following tick whose filtered
\* temperature is above 26.0 turns it off.
C17_FilteredScenario ==
    /\ n_tick = 1 /\ Below(FilteredAt(1), 25) => heater_on
    /\ /\ n_tick = 2
       /\ Below(FilteredAt(1), 25)
       /\ ~Below(FilteredAt(2), 25) /\ ~Above(FilteredAt(2), 26)
       => heater_on
    /\ /\ n_tick = 3
       /\ Below(FilteredAt(1), 25)
       /\ ~Below(FilteredAt(2), 25) /\ ~Above(FilteredAt(2), 26)
       /\ Above(FilteredAt(3), 26)
       => ~heater_on /\ heater_pin = 0

\* The three ticks have happened: filtered below 25.0, inside the band, above 26.0,
\* and the heater is off again.
C17_Witness ==
    /\ n_tick = 3
    /\ Below(FilteredAt(1), 25)
    /\ ~Below(FilteredAt(2), 25) /\ ~Above(FilteredAt(2), 26)
    /\ Above(FilteredAt(3), 26)
    /\ Temp = FilteredAt(3)
    /\ ~heater_on

\* C18: with the loop running for ever (and the sensor answering every pulse), each
\* flag a callback has set is eventually cleared by the loop: the feeder timeout,
\* the food-sensor flag, the periodic tick, the trigger request, the echo flag and
\* its rise and fall markers, the vibration flag; in both variants.
C18_FlagsEventuallyServiced ==
    /\ (flag_alarm # 0) ~> (flag_alarm = 0)
    /\ (flag_low_food # 0) ~> (flag_low_food = 0)
    /\ (flag_periodic # 0) ~> (flag_periodic = 0)
    /\ flag_trigger ~> ~flag_trigger
    /\ flag_echo ~> ~flag_echo
    /\ rise_echo ~> ~rise_echo
    /\ fall_echo ~> ~fall_echo
    /\ flag_vibration ~> ~flag_vibration

\* C19: after a failed initialisation of the display a diagnostic message has been
\* emitted, the control loop keeps running, and the display shows nothing.
C19_DisplayFailureNonFatal ==
    oled # "ok" => /\ diag # {}
                   /\ pc # "fault"
                   /\ display = Screen("")

\* The loop is between consuming a tick and printing its report / rendering it.
ReportDue == pc \in {"periodic_clear", "report"}
RenderDue == pc \in {"periodic_clear", "report", "buzzer_on", "buzzer_arm", "display"}

\* C20: each consumed periodic tick runs the heater decision and the dimmer once
\* (one sample into each filter, one decision on the new filtered values) and is
\* followed, before the loop leaves the periodic section, by exactly one report and
\* one render of temperature, light, distance, IR and vibration, the display
\* showing the light as level x 0.122; outside a consumed tick nothing is
\* measured, printed or rendered.
C20_OneReportAndRenderPerTick ==
    /\ [](/\ n_report = n_tick - (IF ReportDue THEN 1 ELSE 0)
          /\ n_render = n_tick - (IF RenderDue THEN 1 ELSE 0))
    /\ [][/\ TickStep =>
                /\ pc = "periodic" /\ flag_periodic = 1 /\ n_tick' = n_tick + 1
                /\ tindice' = (tindice + 1) % TEMP_WINDOW_SIZE
                /\ lindice' = (lindice + 1) % LIGHT_WINDOW_SIZE
                /\ heater_on' = HeaterNext(Temp', heater_on)
                /\ light_duty' = LightDuty(lights_value', LightTop)
          /\ ~TickStep =>
                UNCHANGED <<Temp, lights_value, tbuffer, tindice, tcontador, lbuffer,
                            lindice, lcontador, heater_on, heater_pin, light_duty>>
          /\ n_report' # n_report =>
                /\ pc = "report" /\ n_report' = n_report + 1
                /\ report' = [text |-> "status", temp |-> Temp, light |-> lights_value,
                              dist |-> distance, ir |-> ir_value,
                              vib |-> vibration_value]
          /\ n_report' = n_report => report' = report /\ "printf" \notin io'
          /\ n_render' # n_render =>
                /\ pc = "display" /\ n_render' = n_render + 1
                /\ oled = "ok" =>
                      /\ display'.temp = Temp /\ display'.dist = distance
                      /\ display'.ir = ir_value /\ display'.vib = vibration_value
                      /\ display'.lux.num * 1000 = lights_value * 122 * display'.lux.den
                /\ oled # "ok" => display' = display
          /\ n_render' = n_render => display' = display /\ "oled" \notin io'
         ]_vars

\* Two ticks have been reported and rendered on a working display, the second frame
\* showing a vibration, the food sensor and a light level.
C20_Witness ==
    /\ oled = "ok" /\ pc = "trigger"
    /\ n_tick = 2 /\ n_report = 2 /\ n_render = 2
    /\ display.text = "status" /\ display.vib = 1 /\ display.ir = 1
    /\ display.lux.num > 0
    /\ report.text = "status" /\ report.light = lights_value

\* The statements of one pass of the loop in the order of the source, and the flag
\* tests among them.
PassOrder ==
    <<"alarm1", "alarm1_clear", "alarm1_arm", "alarm2", "alarm2_clear", "alarm2_arm",
      "food1", "food1_clear", "food2", "food2_clear",
      "periodic", "periodic_clear", "report", "buzzer_on", "buzzer_arm", "display",
      "trigger", "trigger_clear", "trigger_fire",
      "echo", "echo_clear", "echo_rise", "echo_rise_do", "echo_fall", "echo_fall_do",
      "vibration", "vibration_clear", "vibration_count">>
FlagOrder ==
    <<"alarm1", "alarm2", "food1", "food2", "periodic", "trigger", "echo", "vibration">>

Pos(label) == CHOOSE i \in DOMAIN PassOrder : PassOrder[i] = label
\* The flag test whose if statement holds the statement at a label.
TestOf(label) ==
    CHOOSE t \in CheckLabels :
        /\ Pos(t) <= Pos(label)
        /\ \A u \in CheckLabels : Pos(u) <= Pos(label) => Pos(u) <= Pos(t)
NextTest(t) ==
    LET i == CHOOSE j \in DOMAIN FlagOrder : FlagOrder[j] = t
    IN  FlagOrder[(i % Len(FlagOrder)) + 1]

FeederTokens ==
    Cardinality(FeederAlarms) + (IF flag_alarm # 0 THEN 1 ELSE 0)
        + (IF pc \in {"alarm1_arm", "alarm2_arm"} THEN 1 ELSE 0)

\* C22: from the start (servo closed, one come_back_irq1 alarm of 3000 ms) there is
\* always exactly one feeder timeout in flight; every feeder command follows one
\* expired timeout and is the opposite of the previous command (Open only with the
\* servo closed, Close only with it open), and every alarm the loop arms after a
\* command is the single feeder alarm, has the delay LED_TIMEOUT_MS and the callback
\* of the opposite command.
C22_CommandsAlternate ==
    /\ [](FeederTokens = 1)
    /\ [](n_open + n_close <= n_irq1 + n_irq2 /\ n_irq1 + n_irq2 <= n_open + n_close + 1)
    /\ [][/\ n_open' # n_open =>
                /\ n_open' = n_open + 1 /\ n_open = n_close /\ n_irq1 = n_open + 1
                /\ servo_level = food_control(FOOD_CLOSE)
                /\ servo_level' = food_control(FOOD_OPEN)
          /\ n_close' # n_close =>
                /\ n_close' = n_close + 1 /\ n_open = n_close + 1 /\ n_irq2 = n_close + 1
                /\ servo_level = food_control(FOOD_OPEN)
                /\ servo_level' = food_control(FOOD_CLOSE)
          /\ servo_level' # servo_level => n_open' # n_open \/ n_close' # n_close
          /\ Len(alarms') > Len(alarms) =>
                /\ FeederAlarms = {}
                /\ alarms' = Append(alarms,
                                 [cb |-> IF n_open = n_close THEN "come_back_irq1"
                                         ELSE "come_back_irq2",
                                  ms |-> LED_TIMEOUT_MS, fresh |-> TRUE])
         ]_vars

\* Open, Close, Open, Close have been commanded and the next Open is awaited.
C22_Witness ==
    /\ n_open = 2 /\ n_close = 2
    /\ servo_level = food_control(FOOD_CLOSE)
    /\ \E i \in FeederAlarms : alarms[i].cb = "come_back_irq1"

\* C23: while trigger_ready is false, no step but the loop's handling of a fall edge
\* sets it, and no step issues a trigger pulse: neither a trigger-timer request, nor a
\* rising edge, nor time passing brings the cycle back.
C23_NoFallback ==
    [][~trigger_ready /\ ~FallStep => ~trigger_ready' /\ "trig" \notin io']_vars

\* The echo rose and has not fallen; the loop has consumed a later trigger request
\* without a pulse, and trigger_ready is still false.
C23_Witness ==
    /\ variant = 1 /\ pc = "echo"
    /\ "clear" \in work /\ "trig" \notin work
    /\ since_pulse = "pulsed" /\ echo_line = "high" /\ ~flag_echo /\ ~rise_echo
    /\ ~trigger_ready

\* C24: whatever the flags hold and whenever the callbacks run, the loop, as long as
\* it is scheduled, always comes back to the top of the while (1): every pass ends.
C24_EveryPassTerminates == []<>(pc = "alarm1")

\* The level register holds top * duty truncated, duty = (1000 + (angle - 35) * 1000
\* / 93) / 20000; both sides of the comparison are multiplied by 93 * 20000 / 1000.
LevelOfAngle(level, angle) ==
    /\ level * 93 * 20 <= ServoTop * (93 + (angle - 35))
    /\ ServoTop * (93 + (angle - 35)) < (level + 1) * 93 * 20

\* C25: every Open command writes the level of angle 120 (140 less the margin 20) and
\* every Close command, the initial one included, the level of angle 140; the level
\* depends on the command alone, and the two levels differ.
C25_ServoCommand ==
    /\ [](\/ LevelOfAngle(servo_level, 120) /\ n_open = n_close + 1
          \/ LevelOfAngle(servo_level, 140) /\ n_open = n_close)
    /\ [](~(LevelOfAngle(servo_level, 120) /\ LevelOfAngle(servo_level, 140)))
    /\ [][/\ n_open' # n_open => LevelOfAngle(servo_level', 120)
          /\ n_close' # n_close => LevelOfAngle(servo_level', 140)
          /\ (n_open' # n_open /\ n_open > 0) =>
                \A l \in 0 .. ServoTop :
                    LevelOfAngle(l, 120) => servo_level' = l
         ]_vars

\* The servo has been opened, closed and opened again.
C25_Witness ==
    n_open = 2 /\ n_close = 1 /\ LevelOfAngle(servo_level, 120) /\ pc = "alarm2"

\* C26: the pulse the servo receives, servo_level / top of the 20000 us frame, is at
\* least 1000 us and at most 2000 us.
C26_PulseWithinServoRange ==
    /\ 1000 * ServoTop <= servo_level * 20000
    /\ servo_level * 20000 <= 2000 * ServoTop

\* C27: the heater pin always shows heater_on, and the only step that changes
\* either is the loop's consumption of a periodic tick, which sets them to the
\* decision of temperature_control on the new filtered temperature.
C27_HeaterOwnedByDecision ==
    /\ [](heater_pin = IF heater_on THEN 1 ELSE 0)
    /\ [][(heater_on' # heater_on \/ heater_pin' # heater_pin) =>
             /\ TickStep /\ pc = "periodic" /\ "heater" \in io'
             /\ heater_on' = HeaterNext(Temp', heater_on)]_vars

\* The heater is on and, since the tick that switched it on, the buzzer alarm or a
\* feeder alarm has fired.
C27_Witness ==
    /\ heater_on /\ heater_pin = 1 /\ n_tick = 1
    /\ (flag_alarm = 1 \/ io = {"buzzer"})

\* The results the next push of each sample value would get from each filter.
NextDistance == [v \in SampleValues |-> moving_average(v).avg]
NextTemperature == [v \in SampleValues |-> media_movil(v).avg]
NextLight == [v \in SampleValues |-> media_movil2(v).avg]

\* C28: a push into one filter writes that filter's buffer, cursor and count and
\* leaves the buffers, cursors, counts and next results of the other two as they
\* were.
C28_FiltersIndependent ==
    [][/\ sel' = "distance" =>
            /\ dFilter' # dFilter
            /\ UNCHANGED <<tFilter, lFilter, NextTemperature, NextLight>>
       /\ sel' = "temperature" =>
            /\ tFilter' # tFilter
            /\ UNCHANGED <<dFilter, lFilter, NextDistance, NextLight>>
       /\ sel' = "light" =>
            /\ lFilter' # lFilter
            /\ UNCHANGED <<dFilter, tFilter, NextDistance, NextTemperature>>
      ]_vars

\* Each filter holds samples, the three averages differ, and the latest push went
\* into the temperature filter.
C28_Witness ==
    /\ sel = "temperature"
    /\ wcount = 1 /\ tcontador = 2 /\ lcontador = 2
    /\ WindowSum(window, wcount) * tcontador # WindowSum(tbuffer, tcontador) * wcount
    /\ WindowSum(lbuffer, lcontador) # WindowSum(tbuffer, tcontador)

\* C29: if the food sensor's line has had an edge then, from some point on (its edges
\* having stopped and the loop having run), ir_value and the LED show the level the
\* latest edge left on the line: 1 after a rising edge, 0 after a falling one.
C29_FoodSensorConverges ==
    <>(unseen.food # "none") =>
        <>[](ir_value = low_food_level /\ led_pin = low_food_level)

\* The value of a uint32_t.
Micros(u) == u.hi * HalfWord + u.lo

\* C30: the duration the fall step computes is the number of microseconds that have
\* passed since echo_start was taken, also when the counter has wrapped from 2^32 - 1
\* to 0 in between and echo_end is the smaller number.
C30_DurationAcrossWrap ==
    [][FallStep => /\ echo_end' = now
                   /\ Micros(duracion') = elapsed]_vars

\* A measurement whose echo_start was taken before the counter wrapped and whose
\* echo_end after it has been accepted.
C30_Witness ==
    /\ since_pulse = "fall_done"
    /\ echo_start.hi = HalfWord - 1 /\ echo_end.hi = 0
    /\ duracion.hi = 0 /\ duracion.lo > 0
    /\ wcount = 1

\* C31: a vibration is reported for exactly one periodic tick.  vibration_value changes
\* only when a tick is reported; the tick that follows the loop's consumption of
\* flag_vibration sets it to 1 and every other tick sets it to 0, so it is 0 on all
\* later ticks until another vibration is consumed; while none has been consumed
\* (vibration_count is still 0) it is 0.
C31_VibrationReportedOnce ==
    /\ [](vibration_count = 0 => vibration_value = 0 /\ ~unseen.consumed)
    /\ [][/\ vibration_value' # vibration_value => pc = "report"
          /\ pc = "report" /\ pc' # pc =>
                vibration_value' = (IF unseen.consumed THEN 1 ELSE 0)]_vars

C31_Witness ==
    /\ n_report = 2
    /\ pc = "display"
    /\ display.vib = 1
    /\ vibration_value = 0

\* C32: the buzzer is switched on only in the periodic branch of a tick whose
\* vibration_value is 1, the switch-on is followed by the arming of a 500 ms alarm for
\* apagar_buzzer, and whenever the buzzer is on it is eventually switched off.
C32_BuzzerSwitchedOff ==
    /\ [][/\ buzzer_pin' = 1 /\ (buzzer_pin = 0 \/ "buzzer" \in io') =>
                pc = "buzzer_on" /\ vibration_value = 1 /\ pc' = "buzzer_arm"
          /\ pc = "buzzer_arm" /\ pc' # pc =>
                alarms' = Append(alarms, [cb |-> "apagar_buzzer", ms |-> 500,
                                          fresh |-> TRUE])]_vars
    /\ (buzzer_pin = 1) ~> (buzzer_pin = 0)

\* C33: the two variants issue their trigger pulses in the same loop passes.  At the end
\* of every trigger branch this loop has pulsed exactly if the loop of the other
\* variant, given the same callbacks, has pulsed in the same pass.
C33_SamePulses ==
    [][unseen.twin.on /\ (pc = "trigger" \/ pc = "trigger_fire") /\ pc' = "echo" =>
          ("trig" \in io') = unseen'.twin.pulsed]_vars

\* C34: the two variants report the same vibration_value and take the same decision to
\* switch the buzzer on at every tick, while their vibration_count may differ:
\* vibration_value always equals the value the loop of the other variant holds after
\* the same pulses and ticks, and the tick's report goes on to the buzzer exactly if
\* the other variant's vibration_value is 1.
C34_SameVibrationReport ==
    /\ [](unseen.twin.on => vibration_value = unseen.twin.vibration_value)
    /\ [][unseen.twin.on /\ pc = "report" /\ pc' # pc =>
             (pc' = "buzzer_on") = (unseen'.twin.vibration_value = 1)]_vars

C34_Witness ==
    /\ unseen.twin.on
    /\ n_report = 2
    /\ pc = "display"
    /\ display.vib = 1
    /\ vibration_value = 0
    /\ vibration_count # unseen.twin.vibration_count

\* C35: food_control is fail-safe.  After a call with FOOD_OPEN the servo holds the level
\* of the open angle 120; after a call with any other command, FOOD_CLOSE or a value
\* that is neither, it holds the level of the closed angle 140.
C35_UnknownCommandCloses ==
    sel = "servo" /\ pushed # <<>> =>
        IF pushed[Len(pushed)] = FOOD_OPEN
        THEN LevelOfAngle(servo_level, 120) /\ ~LevelOfAngle(servo_level, 140)
        ELSE LevelOfAngle(servo_level, 140)

\* The servo was opened and then given a command that is neither open nor close.
C35_Witness ==
    /\ sel = "servo"
    /\ Len(pushed) = 2
    /\ pushed[1] = FOOD_OPEN
    /\ pushed[2] = 255
    /\ LevelOfAngle(servo_level, 140)

\* The cursor and the buffer of the filter under test.
SelCursor ==
    IF sel = "distance" THEN wpos
    ELSE IF sel = "temperature" THEN tindice
    ELSE lindice

SelBuffer ==
    IF sel = "distance" THEN window
    ELSE IF sel = "temperature" THEN tbuffer
    ELSE lbuffer

\* C36: after any number m of pushes into a window of capacity N the cursor is
\* m mod N and lies in 0 .. N-1, the count is min(m, N) and lies in 0 .. N, the slots
\* that have been written are the slots 0 .. count-1 that the sum runs over, and each
\* of them holds the latest value pushed into it.
C36_RingBuffer ==
    LET N == Capacity(sel)
        m == Len(pushed)
        written == {(k - 1) % N : k \in 1 .. m}
    IN  /\ 0 <= SelCursor /\ SelCursor < N
        /\ 0 <= SelCount /\ SelCount <= N
        /\ SelCursor = m % N
        /\ SelCount = Min(m, N)
        /\ written = 0 .. SelCount - 1
        /\ \A k \in 1 .. m : k > m - N => SelBuffer[(k - 1) % N] = pushed[k]

\* The distance window has wrapped: two pushes more than its capacity.
C36_Witness ==
    /\ sel = "distance"
    /\ Len(pushed) = WINDOW_SIZE + 2
    /\ wpos = 2
    /\ wcount = WINDOW_SIZE
    /\ window[0] # window[1]


=============================================================================
